---- MODULE Spec2Model ----
(***************************************************************************)
(* Lazy matrix expressions of the dense crate: the checked and unchecked   *)
(* access tiers (traits/random_access.rs), the Matrix handle with its      *)
(* coordinate indexing and eval (matrix/common_impl.rs) and the Addition   *)
(* expression node with its four `+` forms (addition.rs).                  *)
(*                                                                         *)
(* The store `mats` holds the named handles of a program: the two storage  *)
(* matrices "A" and "B", the expression "E" under construction and the     *)
(* result "R" of the last eval.  A handle is a record:                     *)
(*   base  - owned dense storage: a layout and a flat buffer               *)
(*   ref   - MatrixRef, a borrow of a named handle of the store            *)
(*   add   - Addition(mat1, mat2, layout)                                  *)
(*   scal  - the scalar multiple k * mat                                   *)
(*   moved - the name holds no value (never assigned, moved out or dropped)*)
(* Items are integers; IndexType is a natural number.                      *)
(*                                                                         *)
(* `index_layout` is the DefaultSerialIndexLayout of the sparse crate      *)
(* (index_layout/default_serial_index_layout.rs), None where the program   *)
(* constructs none.                                                        *)
(***************************************************************************)
EXTENDS Integers, Sequences, FiniteSets, TLC

VARIABLES mats, ret, failed, writes, steps, index_layout

vars == <<mats, ret, failed, writes, steps, index_layout>>

\* ---- bounds ----
MaxRows == 2
MaxCols == 2
MaxWrites == 2
MaxSteps == 3

\* ---- the values of test::scalar_mult ----
TestRows == 2
TestCols == 3
TestVal1 == 5
TestVal2 == 6
TestScalar == 2
TestRow == 1
TestCol == 2
TestResult == 16

Names == {"A", "B", "E", "R"}
Storage == {"A", "B", "R"}
Values == {TestVal1, TestVal2}
Scalars == {TestScalar}

Moved == [kind |-> "moved"]
None == [tag |-> "None"]
Panic == [tag |-> "Panic"]
Some(x) == [tag |-> "Some", val |-> x]
Val(x) == [tag |-> "Val", val |-> x]
\* what an unchecked access outside the buffer yields: no Item at all
Undef == 0 - 1

\* ---- DefaultLayout ----
from_dimension(d, stride) == [dim |-> d, stride |-> stride]

number_of_elements(l) == l.dim[1] * l.dim[2]

convert_1d_2d(l, index) ==
    IF l.dim[2] = 0 THEN <<0, 0>>
    ELSE <<index \div l.dim[2], index % l.dim[2]>>

convert_2d_1d(l, row, col) == row * l.dim[2] + col

convert_2d_raw(l, row, col) == row * l.stride[1] + col * l.stride[2]

convert_1d_raw(l, index) ==
    LET rc == convert_1d_2d(l, index) IN convert_2d_raw(l, rc[1], rc[2])

\* ---- owned dense storage ----
zeros_from_dim(rows, cols) ==
    [kind |-> "base",
     layout |-> from_dimension(<<rows, cols>>, <<cols, 1>>),
     data |-> [i \in 0..(rows * cols - 1) |-> 0]]

\* a reference to an element of a storage buffer: its place and its value
ElemRef(h, raw) ==
    [at |-> raw, val |-> IF raw \in DOMAIN h.data THEN h.data[raw] ELSE Undef]

base_get_unchecked(h, row, col) == ElemRef(h, convert_2d_raw(h.layout, row, col))

base_get1d_unchecked(h, index) == ElemRef(h, convert_1d_raw(h.layout, index))

Deref(r) == r.val

\* Item + Item and k * Item, undefined as soon as one side is
Plus(x, y) == IF x = Undef \/ y = Undef THEN Undef ELSE x + y

Times(k, x) == IF x = Undef THEN Undef ELSE k * x

\* ---- Layout of a handle ----
RECURSIVE layout(_, _)
layout(s, h) ==
    CASE h.kind = "base" -> h.layout
      [] h.kind = "add" -> h.layout
      [] h.kind = "scal" -> layout(s, h.a)
      [] h.kind = "ref" -> layout(s, s[h.name])

dim(s, h) == layout(s, h).dim

\* ---- unchecked by-value tier ----
RECURSIVE get_value_unchecked(_, _, _, _)
\* Addition::get_value_unchecked adding the first operand to itself
Addition_get_value_unchecked_twice(s, h, row, col) ==
    Plus(get_value_unchecked(s, h.a, row, col), get_value_unchecked(s, h.a, row, col))

\* Addition::get_value_unchecked forgetting the second operand
Addition_get_value_unchecked_first(s, h, row, col) ==
    get_value_unchecked(s, h.a, row, col)

Addition_get_value_unchecked(s, h, row, col) ==
    Plus(get_value_unchecked(s, h.a, row, col), get_value_unchecked(s, h.b, row, col))

Scalar_get_value_unchecked(s, h, row, col) ==
    Times(h.k, get_value_unchecked(s, h.a, row, col))

get_value_unchecked(s, h, row, col) ==
    CASE h.kind = "base" -> Deref(base_get_unchecked(h, row, col))
      [] h.kind = "add" -> Addition_get_value_unchecked(s, h, row, col)
      [] h.kind = "scal" -> Scalar_get_value_unchecked(s, h, row, col)
      [] h.kind = "ref" -> get_value_unchecked(s, s[h.name], row, col)

RECURSIVE get1d_value_unchecked(_, _, _)
\* Addition::get1d_value_unchecked adding the first operand to itself
Addition_get1d_value_unchecked_twice(s, h, index) ==
    Plus(get1d_value_unchecked(s, h.a, index), get1d_value_unchecked(s, h.a, index))

Addition_get1d_value_unchecked(s, h, index) ==
    Plus(get1d_value_unchecked(s, h.a, index), get1d_value_unchecked(s, h.b, index))

Scalar_get1d_value_unchecked(s, h, index) ==
    Times(h.k, get1d_value_unchecked(s, h.a, index))

get1d_value_unchecked(s, h, index) ==
    CASE h.kind = "base" -> Deref(base_get1d_unchecked(h, index))
      [] h.kind = "add" -> Addition_get1d_value_unchecked(s, h, index)
      [] h.kind = "scal" -> Scalar_get1d_value_unchecked(s, h, index)
      [] h.kind = "ref" -> get1d_value_unchecked(s, s[h.name], index)

\* ---- bounds checks ----
\* check_dimension admitting the column one past the last
check_dimension_past(row, col, d) == row < d[1] /\ col <= d[2]

check_dimension(row, col, d) == row < d[1] /\ col < d[2]

check_dimension1d(elem, nelems) == elem < nelems

\* assert_dimension and assert_dimension1d: TRUE when the assertions pass
\* assert_dimension without its second assertion
assert_dimension_row_only(row, col, d) == row < d[1]

assert_dimension(row, col, d) == row < d[1] /\ col < d[2]

assert_dimension1d(elem, nelems) == elem < nelems

\* ---- checked tier: [out, unchecked], the outcome and whether the   ----
\* ---- unchecked accessor was called                                 ----
get_value(s, h, row, col) ==
    IF assert_dimension(row, col, dim(s, h))
    THEN [out |-> Val(get_value_unchecked(s, h, row, col)), unchecked |-> TRUE]
    ELSE [out |-> Panic, unchecked |-> FALSE]

get1d_value(s, h, elem) ==
    IF assert_dimension1d(elem, number_of_elements(layout(s, h)))
    THEN [out |-> Val(get1d_value_unchecked(s, h, elem)), unchecked |-> TRUE]
    ELSE [out |-> Panic, unchecked |-> FALSE]

get_mut(h, row, col) ==
    IF check_dimension(row, col, h.layout.dim)
    THEN [out |-> Some(base_get_unchecked(h, row, col)), unchecked |-> TRUE]
    ELSE [out |-> None, unchecked |-> FALSE]

get1d_mut(h, elem) ==
    IF check_dimension1d(elem, number_of_elements(h.layout))
    THEN [out |-> Some(base_get1d_unchecked(h, elem)), unchecked |-> TRUE]
    ELSE [out |-> None, unchecked |-> FALSE]

get(h, row, col) ==
    IF check_dimension(row, col, h.layout.dim)
    THEN [out |-> Some(base_get_unchecked(h, row, col)), unchecked |-> TRUE]
    ELSE [out |-> None, unchecked |-> FALSE]

get1d(h, elem) ==
    IF check_dimension1d(elem, number_of_elements(h.layout))
    THEN [out |-> Some(base_get1d_unchecked(h, elem)), unchecked |-> TRUE]
    ELSE [out |-> None, unchecked |-> FALSE]

\* Option::unwrap
unwrap(r) == [out |-> IF r.out = None THEN Panic ELSE r.out, unchecked |-> r.unchecked]

index(h, row, col) == unwrap(get(h, row, col))

\* index_mut taking the coordinate in the other order
index_mut_exchanged(h, row, col) == unwrap(get_mut(h, col, row))

index_mut(h, row, col) == unwrap(get_mut(h, row, col))

\* ---- Addition ----
\* Addition::new without its assertion
Addition_new_unasserted(s, mat1, mat2) ==
    LET d == dim(s, mat1) IN
    [kind |-> "add", a |-> mat1, b |-> mat2,
     layout |-> from_dimension(d, <<1, d[1]>>)]

\* Addition::new comparing the row counts only
Addition_new_rows_only(s, mat1, mat2) ==
    IF dim(s, mat1)[1] # dim(s, mat2)[1] THEN Panic
    ELSE LET d == dim(s, mat1) IN
         [kind |-> "add", a |-> mat1, b |-> mat2,
          layout |-> from_dimension(d, <<1, d[1]>>)]

Addition_new(s, mat1, mat2) ==
    IF dim(s, mat1) # dim(s, mat2) THEN Panic
    ELSE LET d == dim(s, mat1) IN
         [kind |-> "add", a |-> mat1, b |-> mat2,
          layout |-> from_dimension(d, <<1, d[1]>>)]

from_ref(n) == [kind |-> "ref", name |-> n]

\* the four forms of `+`: the operands are named, a borrowed one is wrapped
add_owned_owned(s, l, r) == Addition_new(s, s[l], s[r])

\* the owned + borrowed form borrowing its left operand
add_owned_ref_left(s, l, r) == Addition_new(s, s[l], from_ref(l))

add_owned_ref(s, l, r) == Addition_new(s, s[l], from_ref(r))

add_ref_owned(s, l, r) == Addition_new(s, from_ref(l), s[r])

add_ref_ref(s, l, r) == Addition_new(s, from_ref(l), from_ref(r))

\* k * mat
scalar_mult(k, mat) == [kind |-> "scal", k |-> k, a |-> mat]

\* ---- eval ----
\* eval runs on [result, log]: the matrix under construction and, for every
\* pass through the body of its loops, the coordinate read from the source,
\* the coordinate written in the result and the place written in its buffer
eval_start(rows, cols) == [result |-> zeros_from_dim(rows, cols), log |-> <<>>]

\* *result.get_unchecked_mut(row, col) = self.get_value_unchecked(row, col)
eval_body(s, h, acc, row, col) ==
    LET raw == convert_2d_raw(acc.result.layout, row, col) IN
    [result |-> [acc.result EXCEPT !.data[raw] = get_value_unchecked(s, h, row, col)],
     log |-> Append(acc.log, [read |-> <<row, col>>, write |-> <<row, col>>, at |-> raw])]

\* the two nested loops of eval, from (row, col) on
RECURSIVE eval_loop(_, _, _, _, _)
\* the inner loop of eval running over the row count
eval_loop_row_count(s, h, acc, row, col) ==
    LET d == dim(s, h) IN
    IF row >= d[1] THEN acc
    ELSE IF col >= d[1] THEN eval_loop(s, h, acc, row + 1, 0)
    ELSE eval_loop(s, h, eval_body(s, h, acc, row, col), row, col + 1)

\* the inner loop of eval running one column past the last
eval_loop_inclusive(s, h, acc, row, col) ==
    LET d == dim(s, h) IN
    IF row >= d[1] THEN acc
    ELSE IF col > d[2] THEN eval_loop(s, h, acc, row + 1, 0)
    ELSE eval_loop(s, h, eval_body(s, h, acc, row, col), row, col + 1)

eval_loop(s, h, acc, row, col) ==
    LET d == dim(s, h) IN
    IF row >= d[1] THEN acc
    ELSE IF col >= d[2] THEN eval_loop(s, h, acc, row + 1, 0)
    ELSE eval_loop(s, h, eval_body(s, h, acc, row, col), row, col + 1)

\* eval allocating its result with rows and columns exchanged
eval_exchanged(s, h) ==
    LET d == dim(s, h) IN eval_loop(s, h, eval_start(d[2], d[1]), 0, 0).result

eval(s, h) ==
    LET d == dim(s, h) IN eval_loop(s, h, eval_start(d[1], d[2]), 0, 0).result

\* the passes through the loop body that eval makes on h
eval_log(s, h) ==
    LET d == dim(s, h) IN eval_loop(s, h, eval_start(d[1], d[2]), 0, 0).log

\* ---- ownership, as the borrow checker enforces it ----
RECURSIVE Refs(_)
Refs(h) ==
    CASE h.kind = "ref" -> {h.name}
      [] h.kind = "add" -> Refs(h.a) \cup Refs(h.b)
      [] h.kind = "scal" -> Refs(h.a)
      [] OTHER -> {}

Present(n) == mats[n] # Moved
Borrowed(n) == \E m \in Names : n \in Refs(mats[m])
\* n can be passed by value: it holds a value nobody borrows
Movable(n) == Present(n) /\ ~Borrowed(n)
\* n can be borrowed by an expression stored in "E"
Borrowable(n) == Present(n) /\ n # "E"

NoRet == [op |-> "none"]

\* the coordinates and flat indices tried on a handle: all that are
\* in range, and the first that is not
RowsOf(n) == 0..dim(mats, mats[n])[1]
ColsOf(n) == 0..dim(mats, mats[n])[2]
FlatsOf(n) == 0..number_of_elements(layout(mats, mats[n]))
Larger(x, y) == IF x > y THEN x ELSE y
Rows == 0..Larger(MaxRows, TestRows)
Cols == 0..Larger(MaxCols, TestCols)
Flats == 0..(Larger(MaxRows, TestRows) * Larger(MaxCols, TestCols))

Start(a, b) ==
    /\ mats = [n \in Names |-> CASE n = "A" -> a [] n = "B" -> b [] OTHER -> Moved]
    /\ ret = NoRet
    /\ failed = FALSE
    /\ writes = 0
    /\ steps = 0
    /\ index_layout = None

\* a matrix filled through index_mut: element i of the buffer holds
\* scale * (i + 1), so that no two elements are equal
filled(rows, cols, scale) ==
    [zeros_from_dim(rows, cols) EXCEPT
        !.data = [i \in 0..(rows * cols - 1) |-> scale * (i + 1)]]

\* the elements of B are multiples of Radix, those of A are below it
Radix == MaxRows * MaxCols + 1

\* two filled matrices: B has the dimension of A, or one row or one column less
Init ==
    \E ra \in 0..MaxRows, ca \in 0..MaxCols, rb \in 0..MaxRows, cb \in 0..MaxCols :
       /\ <<rb, cb>> \in {<<ra, ca>>, <<ra - 1, ca>>, <<ra, ca - 1>>}
       /\ Start(filled(ra, ca, 1), filled(rb, cb, Radix))

\* the two zero matrices of test::scalar_mult
InitTest ==
    Start(zeros_from_dim(TestRows, TestCols), zeros_from_dim(TestRows, TestCols))

\* one zero matrix
InitAccess ==
    \E ra \in 0..MaxRows, ca \in 0..MaxCols : Start(zeros_from_dim(ra, ca), Moved)

\* the outcome of a call, and the end of the process when it panicked
Return(op, n, args, r) ==
    /\ ret' = [op |-> op, name |-> n, args |-> args, out |-> r.out,
               unchecked |-> r.unchecked]
    /\ failed' = (r.out = Panic)
    /\ UNCHANGED index_layout

\* m[[row, col]] = v
IndexMutWrite(n, row, col, v) ==
    /\ ~failed /\ Movable(n) /\ writes < MaxWrites
    /\ row \in RowsOf(n) /\ col \in ColsOf(n)
    /\ LET r == index_mut(mats[n], row, col) IN
       /\ Return("index_mut", n, <<row, col, v>>, r)
       /\ mats' = IF r.out = Panic THEN mats
                  ELSE [mats EXCEPT ![n].data[r.out.val.at] = v]
    /\ writes' = writes + 1
    /\ UNCHANGED steps

\* m[[row, col]]
IndexRead(n, row, col) ==
    /\ ~failed /\ Present(n) /\ row \in RowsOf(n) /\ col \in ColsOf(n)
    /\ Return("index", n, <<row, col>>, index(mats[n], row, col))
    /\ UNCHANGED <<mats, writes, steps>>

Get(n, row, col) ==
    /\ ~failed /\ Present(n) /\ row \in RowsOf(n) /\ col \in ColsOf(n)
    /\ Return("get", n, <<row, col>>, get(mats[n], row, col))
    /\ UNCHANGED <<mats, writes, steps>>

GetMut(n, row, col) ==
    /\ ~failed /\ Movable(n) /\ row \in RowsOf(n) /\ col \in ColsOf(n)
    /\ Return("get_mut", n, <<row, col>>, get_mut(mats[n], row, col))
    /\ UNCHANGED <<mats, writes, steps>>

Get1d(n, elem) ==
    /\ ~failed /\ Present(n) /\ elem \in FlatsOf(n)
    /\ Return("get1d", n, <<elem>>, get1d(mats[n], elem))
    /\ UNCHANGED <<mats, writes, steps>>

Get1dMut(n, elem) ==
    /\ ~failed /\ Movable(n) /\ elem \in FlatsOf(n)
    /\ Return("get1d_mut", n, <<elem>>, get1d_mut(mats[n], elem))
    /\ UNCHANGED <<mats, writes, steps>>

GetValue(n, row, col) ==
    /\ ~failed /\ Present(n) /\ row \in RowsOf(n) /\ col \in ColsOf(n)
    /\ Return("get_value", n, <<row, col>>, get_value(mats, mats[n], row, col))
    /\ UNCHANGED <<mats, writes, steps>>

Get1dValue(n, elem) ==
    /\ ~failed /\ Present(n) /\ elem \in FlatsOf(n)
    /\ Return("get1d_value", n, <<elem>>, get1d_value(mats, mats[n], elem))
    /\ UNCHANGED <<mats, writes, steps>>

\* the store after E = node, the names in gone moved into the node
Compose(op, l, r, node, gone) ==
    /\ steps < MaxSteps
    /\ ret' = [op |-> op, name |-> "E", args |-> <<l, r>>,
               dims |-> <<dim(mats, mats[l]), dim(mats, mats[r])>>,
               out |-> IF node = Panic THEN Panic ELSE Val(node),
               unchecked |-> FALSE]
    /\ failed' = (node = Panic)
    /\ mats' = IF node = Panic THEN mats
               ELSE [n \in Names |->
                       IF n = "E" THEN node
                       ELSE IF n \in gone THEN Moved ELSE mats[n]]
    /\ steps' = steps + 1
    /\ UNCHANGED <<writes, index_layout>>

\* E = l + r
AddOwnedOwned(l, r) ==
    /\ ~failed /\ l # r /\ Movable(l) /\ Movable(r)
    /\ LET node == add_owned_owned(mats, l, r) IN
       Compose("add_owned_owned", l, r, node, {l, r})

\* E = l + &r
AddOwnedRef(l, r) ==
    /\ ~failed /\ l # r /\ Movable(l) /\ Borrowable(r)
    /\ LET node == add_owned_ref(mats, l, r) IN
       Compose("add_owned_ref", l, r, node, {l})

\* E = &l + r
AddRefOwned(l, r) ==
    /\ ~failed /\ l # r /\ Borrowable(l) /\ Movable(r)
    /\ LET node == add_ref_owned(mats, l, r) IN
       Compose("add_ref_owned", l, r, node, {r})

\* E = &l + &r
AddRefRef(l, r) ==
    /\ ~failed /\ Borrowable(l) /\ Borrowable(r)
    /\ LET node == add_ref_ref(mats, l, r) IN
       Compose("add_ref_ref", l, r, node, {})

\* E = k * n
ScalarMult(k, n) ==
    /\ ~failed /\ Movable(n)
    /\ LET node == scalar_mult(k, mats[n]) IN
       Compose("scalar_mult", n, n, node, {n})

\* eval building its result in the buffer of the first operand borrowed
Eval_in_place(n) ==
    /\ ~failed /\ Movable(n) /\ ~Borrowed("R") /\ steps < MaxSteps
    /\ LET result == eval(mats, mats[n])
           reused == IF Refs(mats[n]) = {} THEN {}
                     ELSE {CHOOSE m \in Refs(mats[n]) : TRUE}
       IN
       /\ ret' = [op |-> "eval", name |-> n, args |-> <<n>>,
                  src |-> mats[n], out |-> Val(result), unchecked |-> TRUE,
                  log |-> eval_log(mats, mats[n])]
       /\ mats' = [m \in Names |->
                     IF m = "R" \/ m \in reused THEN result
                     ELSE IF m = n THEN Moved ELSE mats[m]]
    /\ steps' = steps + 1
    /\ UNCHANGED <<failed, writes, index_layout>>

\* R = n.eval()
Eval(n) ==
    /\ ~failed /\ Movable(n) /\ ~Borrowed("R") /\ steps < MaxSteps
    /\ LET result == eval(mats, mats[n]) IN
       /\ ret' = [op |-> "eval", name |-> n, args |-> <<n>>,
                  src |-> mats[n], out |-> Val(result), unchecked |-> TRUE,
                  log |-> eval_log(mats, mats[n])]
       /\ mats' = [m \in Names |->
                     IF m = "R" THEN result
                     ELSE IF m = n THEN Moved ELSE mats[m]]
    /\ steps' = steps + 1
    /\ UNCHANGED <<failed, writes, index_layout>>

\* building expressions over two filled matrices and evaluating them
Next ==
    \/ \E l, r \in Names : AddOwnedOwned(l, r)
    \/ \E l, r \in Names : AddOwnedRef(l, r)
    \/ \E l, r \in Names : AddRefOwned(l, r)
    \/ \E l, r \in Names : AddRefRef(l, r)
    \/ \E k \in Scalars, n \in Names : ScalarMult(k, n)
    \/ \E n \in Names : Eval(n)

Spec == Init /\ [][Next]_vars

\* the operations of test::scalar_mult: it fills its two matrices (its first
\* value into A, its second into B), then scales, adds and evaluates them
ValueFor(n) == IF n = "A" THEN TestVal1 ELSE TestVal2

Fill(n, row, col, v) ==
    steps = 0 /\ v = ValueFor(n) /\ IndexMutWrite(n, row, col, v)

NextTest ==
    \/ \E n \in Storage, row \in Rows, col \in Cols, v \in Values :
         Fill(n, row, col, v)
    \/ \E k \in Scalars, n \in Names : ScalarMult(k, n)
    \/ \E l, r \in Names : AddOwnedOwned(l, r)
    \/ \E n \in Names : Eval(n)

SpecTest == InitTest /\ [][NextTest]_vars

\* one storage matrix, filled and read through every checked accessor; the
\* values written alternate between the two of the test
WriteValue == IF writes % 2 = 0 THEN TestVal1 ELSE TestVal2

NextAccess ==
    \/ \E n \in Storage, row \in Rows, col \in Cols :
         IndexMutWrite(n, row, col, WriteValue)
    \/ \E n \in Storage, row \in Rows, col \in Cols : IndexRead(n, row, col)
    \/ \E n \in Storage, row \in Rows, col \in Cols : Get(n, row, col)
    \/ \E n \in Storage, row \in Rows, col \in Cols : GetMut(n, row, col)
    \/ \E n \in Storage, elem \in Flats : Get1d(n, elem)
    \/ \E n \in Storage, elem \in Flats : Get1dMut(n, elem)
    \/ \E n \in Storage, row \in Rows, col \in Cols : GetValue(n, row, col)
    \/ \E n \in Storage, elem \in Flats : Get1dValue(n, elem)

SpecAccess == InitAccess /\ [][NextAccess]_vars

\* building expressions over borrowed operands, reading the elements of the
\* expression built and evaluating
NextRead ==
    \/ \E l, r \in Names : AddRefRef(l, r)
    \/ \E l, r \in Names : AddOwnedRef(l, r)
    \/ \E row \in Rows, col \in Cols : GetValue("E", row, col)
    \/ \E elem \in Flats : Get1dValue("E", elem)
    \/ \E n \in Names : Eval(n)

SpecRead == Init /\ [][NextRead]_vars

\* ---- DefaultSerialIndexLayout ----
\* the sizes, indices and ranks tried: up to the bound, and those of
\* test::test_local_index_layout
MaxSize == 3
MaxRank == 2
TestSize == 14
TestIndex == 2

Sizes == 0..MaxSize \cup {TestSize}
Indices == 0..(MaxSize + 1) \cup {TestIndex, TestSize, TestSize + 1}
Ranks == 0..MaxRank

Ok(x) == [tag |-> "Ok", val |-> x]
Err(e) == [tag |-> "Err", err |-> e]

\* rank as i32: a rank above i32::MAX wraps around
I32Max == 2147483647

as_i32(rank) == IF rank <= I32Max THEN rank ELSE rank - I32Max - I32Max - 2

MpiRankError(rank) == [kind |-> "MpiRankError", rank |-> rank]

DefaultSerialIndexLayout_new(size) == [size |-> size]

number_of_global_indices(self) == self.size

number_of_local_indices(self) == number_of_global_indices(self)

local_range(self) == <<0, self.size>>

index_range(self, rank) ==
    IF rank = 0 THEN Ok(<<0, self.size>>)
    ELSE Err(MpiRankError(as_i32(rank)))

\* local2global admitting the index one past the last
local2global_inclusive(self, idx) ==
    IF idx <= number_of_local_indices(self) THEN Some(idx) ELSE None

local2global(self, idx) ==
    IF idx < number_of_local_indices(self) THEN Some(idx) ELSE None

global2local(self, rank, idx) ==
    IF rank = 0 /\ idx < number_of_global_indices(self) THEN Some(idx)
    ELSE None

rank_from_index(self, idx) ==
    IF idx < number_of_global_indices(self) THEN Some(0) ELSE None

\* an index layout of any size tried, and no matrix
InitIndex ==
    \E size \in Sizes :
       /\ mats = [n \in Names |-> Moved]
       /\ ret = NoRet
       /\ failed = FALSE
       /\ writes = 0
       /\ steps = 0
       /\ index_layout = DefaultSerialIndexLayout_new(size)

\* a call on the index layout and what it returned
Called(op, args, out) ==
    /\ ret' = [op |-> op, args |-> args, out |-> out]
    /\ UNCHANGED <<mats, failed, writes, steps, index_layout>>

NumberOfLocalIndices ==
    /\ index_layout # None
    /\ Called("number_of_local_indices", <<>>, number_of_local_indices(index_layout))

NumberOfGlobalIndices ==
    /\ index_layout # None
    /\ Called("number_of_global_indices", <<>>, number_of_global_indices(index_layout))

LocalRange ==
    /\ index_layout # None
    /\ Called("local_range", <<>>, local_range(index_layout))

IndexRange(rank) ==
    /\ index_layout # None
    /\ Called("index_range", <<rank>>, index_range(index_layout, rank))

Local2Global(i) ==
    /\ index_layout # None
    /\ Called("local2global", <<i>>, local2global(index_layout, i))

Global2Local(rank, i) ==
    /\ index_layout # None
    /\ Called("global2local", <<rank, i>>, global2local(index_layout, rank, i))

RankFromIndex(i) ==
    /\ index_layout # None
    /\ Called("rank_from_index", <<i>>, rank_from_index(index_layout, i))

NextIndex ==
    \/ NumberOfLocalIndices
    \/ NumberOfGlobalIndices
    \/ LocalRange
    \/ \E rank \in Ranks : IndexRange(rank)
    \/ \E i \in Indices : Local2Global(i)
    \/ \E rank \in Ranks, i \in Indices : Global2Local(rank, i)
    \/ \E i \in Indices : RankFromIndex(i)

SpecIndex == InitIndex /\ [][NextIndex]_vars

\* ---- properties ----
AddOps =={"add_owned_owned", "add_owned_ref", "add_ref_owned", "add_ref_ref"}

\* every Addition node inside h has the dim() of both of its operands
RECURSIVE Shaped(_)
Shaped(h) ==
    CASE h.kind = "add" ->
            /\ dim(mats, h) = dim(mats, h.a)
            /\ dim(mats, h) = dim(mats, h.b)
            /\ Shaped(h.a) /\ Shaped(h.b)
      [] h.kind = "scal" -> Shaped(h.a)
      [] OTHER -> TRUE

\* C1: a `+` of any form fails exactly when the dim() of its operands
\* differ, a `+` that succeeds yields a node with the common dim(), and every
\* Addition node in the store has the dim() of both of its operands.
C1_ShapeInvariant ==
    /\ \A n \in Names : Shaped(mats[n])
    /\ ret.op \in AddOps =>
         /\ failed <=> ret.dims[1] # ret.dims[2]
         /\ ~failed =>
              /\ mats["E"].kind = "add"
              /\ dim(mats, mats["E"]) = ret.dims[1]
              /\ dim(mats, mats["E"]) = ret.dims[2]

\* a `+` on operands of different dim() has just failed, after an earlier
\* `+` built the node in E
C1_Witness ==
    /\ failed /\ ret.op \in AddOps /\ ret.dims[1] # ret.dims[2]
    /\ mats["E"].kind = "add"

\* the coordinates in range of a dim()
RowsIn(d) == 0..(d[1] - 1)
ColsIn(d) == 0..(d[2] - 1)

IsVal(o) == o.tag = "Val" /\ o.val # Undef

\* every Addition node inside h holds, at every coordinate in range, the
\* sum of what get_value yields on its two operands
RECURSIVE Elementwise(_)
Elementwise(h) ==
    CASE h.kind = "add" ->
            /\ \A row \in RowsIn(dim(mats, h)), col \in ColsIn(dim(mats, h)) :
                 LET x == get_value(mats, h.a, row, col).out
                     y == get_value(mats, h.b, row, col).out
                     z == get_value(mats, h, row, col).out
                 IN IsVal(x) /\ IsVal(y) /\ IsVal(z) /\ z.val = x.val + y.val
            /\ Elementwise(h.a) /\ Elementwise(h.b)
      [] h.kind = "scal" -> Elementwise(h.a)
      [] OTHER -> TRUE

\* C2: get_value on an Addition node, nested or not, is the sum of get_value
\* on its two operands at every coordinate in range.
C2_ElementwiseSum == \A n \in Names : Elementwise(mats[n])

Nested(h) == h.kind = "add" /\ (h.a.kind = "add" \/ h.b.kind = "add")

Wide(h) == dim(mats, h)[1] >= 2 /\ dim(mats, h)[2] >= 2

\* E is an Addition node over another Addition node, of two rows and
\* columns at least
C2_Witness ==
    /\ ~failed /\ ret.op \in AddOps
    /\ Nested(mats["E"]) /\ Wide(mats["E"])

\* C3: the result of eval has the dim() of the handle evaluated and holds,
\* at every coordinate in range, what get_value yields on that handle.
C3_EvalFidelity ==
    ret.op = "eval" =>
        LET H == ret.src
            R == mats["R"]
        IN /\ R.kind = "base"
           /\ dim(mats, R) = dim(mats, H)
           /\ \A row \in RowsIn(dim(mats, H)), col \in ColsIn(dim(mats, H)) :
                /\ IsVal(get_value(mats, H, row, col).out)
                /\ get_value(mats, R, row, col).out = get_value(mats, H, row, col).out

\* a nested expression that is not square has just been evaluated
C3_Witness ==
    /\ ret.op = "eval" /\ Nested(ret.src)
    /\ dim(mats, mats["R"])[1] # dim(mats, mats["R"])[2]
    /\ number_of_elements(mats["R"].layout) >= 2

\* at every flat index h's Layout admits, get1d_value on h is get_value on h
\* at the coordinate the Layout maps the index to; so for what h is built of
RECURSIVE FlatAgrees(_)
FlatAgrees(h) ==
    /\ \A i \in 0..(number_of_elements(layout(mats, h)) - 1) :
         LET rc == convert_1d_2d(layout(mats, h), i)
             x == get1d_value(mats, h, i).out
         IN IsVal(x) /\ x = get_value(mats, h, rc[1], rc[2]).out
    /\ CASE h.kind = "add" -> FlatAgrees(h.a) /\ FlatAgrees(h.b)
         [] h.kind = "scal" -> FlatAgrees(h.a)
         [] OTHER -> TRUE

\* C7: on every handle, get1d_value at a flat index in range equals
\* get_value at the coordinate the handle's own Layout maps that index to.
C7_FlatConsistency == \A n \in Names : Present(n) => FlatAgrees(mats[n])

\* E adds two different operands of two rows and columns at least, one of
\* them an Addition node itself
C7_Witness ==
    /\ ~failed /\ Nested(mats["E"]) /\ Wide(mats["E"])
    /\ get1d_value(mats, mats["E"].a, 1).out # get1d_value(mats, mats["E"].b, 1).out

\* C9: an Addition node evaluates to the same matrix as the node over the
\* same two operands in the other order.
C9_Commutative ==
    \A n \in Names :
        mats[n].kind = "add" =>
            eval(mats, mats[n]) = eval(mats, Addition_new(mats, mats[n].b, mats[n].a))

\* E adds two operands that evaluate to different matrices
C9_Witness ==
    /\ ~failed /\ ret.op \in AddOps /\ mats["E"].kind = "add" /\ Wide(mats["E"])
    /\ eval(mats, mats["E"].a) # eval(mats, mats["E"].b)

Forms(l, r) == <<add_owned_owned(mats, l, r), add_owned_ref(mats, l, r),
                 add_ref_owned(mats, l, r), add_ref_ref(mats, l, r)>>

\* C10: on any two handles of the store the four forms of `+` all fail when
\* the dim() differ, and otherwise all yield nodes of the common dim() that
\* evaluate to the same matrix.
C10_BorrowTransparent ==
    \A l, r \in Names :
        Present(l) /\ Present(r) =>
            LET f == Forms(l, r)
                first == eval(mats, f[1])
            IN
            IF dim(mats, mats[l]) # dim(mats, mats[r])
            THEN \A i \in 1..4 : f[i] = Panic
            ELSE \A i \in 1..4 :
                    /\ f[i] # Panic
                    /\ dim(mats, f[i]) = dim(mats, mats[l])
                    /\ i > 1 => eval(mats, f[i]) = first

\* a borrowing `+` has built E over A and B, which are still there and differ
C10_Witness ==
    /\ ~failed /\ ret.op = "add_ref_ref" /\ ret.args = <<"A", "B">>
    /\ Wide(mats["E"]) /\ Present("A") /\ Present("B")
    /\ eval(mats, mats["A"]) # eval(mats, mats["B"])

\* ---- the checked tier on storage ----
RefOps == {"get", "get_mut", "get1d", "get1d_mut"}

\* whether the arguments of the last call are in range of the matrix called
InRange ==
    LET d == dim(mats, mats[ret.name]) IN
    IF ret.op \in {"get1d", "get1d_mut", "get1d_value"}
    THEN ret.args[1] < d[1] * d[2]
    ELSE ret.args[1] < d[1] /\ ret.args[2] < d[2]

C4_Outcome ==
    ret.op \in RefOps =>
        /\ ~failed
        /\ ret.out.tag = (IF InRange THEN "Some" ELSE "None")
        /\ ret.unchecked = InRange
        /\ InRange => ret.out.val.val # Undef

\* C4: get, get_mut, get1d and get1d_mut never fail; they return a present
\* value exactly when their argument is in range and None otherwise, call
\* the unchecked accessor only when it is, and leave the store as it was.
C4_CheckedRefTier ==
    /\ []C4_Outcome
    /\ [][ret'.op \in RefOps => mats' = mats]_vars

\* get_mut has returned None on a matrix that holds a written element
C4_Witness ==
    /\ ret.op = "get_mut" /\ ret.out = None
    /\ \E i \in DOMAIN mats[ret.name].data : mats[ret.name].data[i] # 0

\* C5: get_value and get1d_value fail exactly when their argument is out of
\* range, without calling the unchecked accessor; in range they call it and
\* return its value.
C5_CheckedValueTier ==
    ret.op \in {"get_value", "get1d_value"} =>
        LET h == mats[ret.name] IN
        /\ failed = ~InRange
        /\ ~InRange => ret.out = Panic /\ ~ret.unchecked
        /\ InRange =>
             /\ ret.unchecked /\ IsVal(ret.out)
             /\ ret.out.val =
                  (IF ret.op = "get_value"
                   THEN get_value_unchecked(mats, h, ret.args[1], ret.args[2])
                   ELSE get1d_value_unchecked(mats, h, ret.args[1]))

\* get_value has failed on a column out of range, its row being in range
C5_Witness ==
    /\ ret.op = "get_value" /\ failed
    /\ ret.args[1] < dim(mats, mats[ret.name])[1]
    /\ ret.args[2] >= dim(mats, mats[ret.name])[2]

C6_Outcome ==
    ret.op \in {"index", "index_mut"} =>
        LET h == mats[ret.name]
            row == ret.args[1]
            col == ret.args[2]
        IN /\ failed = ~InRange
           /\ InRange =>
                /\ ret.out.tag = "Some"
                /\ ret.out.val.at = get(h, row, col).out.val.at
                /\ ret.out.val.at = get_mut(h, row, col).out.val.at
                /\ ret.op = "index" => ret.out = get(h, row, col).out
                /\ ret.op = "index_mut" => index(h, row, col).out.val.val = ret.args[3]

\* what a step m[[row, col]] = v leaves alone
C6_Frame ==
    ret'.op = "index_mut" =>
        LET n == ret'.name IN
        /\ \A m \in Names \ {n} : mats'[m] = mats[m]
        /\ mats'[n].layout = mats[n].layout
        /\ failed' => mats'[n] = mats[n]
        /\ ~failed' =>
             \A i \in DOMAIN mats[n].data :
                 i # ret'.out.val.at => mats'[n].data[i] = mats[n].data[i]

\* C6: m[[row, col]], read or written, fails exactly when the coordinate is
\* out of range and otherwise is the element get and get_mut return; after
\* m[[row, col]] = v the element reads v and every other element is as before.
C6_CoordinateIndexing ==
    /\ []C6_Outcome
    /\ [][C6_Frame]_vars
    /\ [][ret'.op = "index" => mats' = mats]_vars

\* m[[row, col]] = v has succeeded on a matrix that holds another written
\* element
C6_Witness ==
    /\ ret.op = "index_mut" /\ ~failed
    /\ \E i \in DOMAIN mats[ret.name].data :
         i # ret.out.val.at /\ mats[ret.name].data[i] # 0

\* ---- test::scalar_mult ----
\* a zero matrix of the test with its one written element
TestMatrix(v) ==
    LET z == zeros_from_dim(TestRows, TestCols) IN
    [z EXCEPT !.data[convert_2d_raw(z.layout, TestRow, TestCol)] = v]

\* h is k * A + B over two storage matrices
IsScaledSum(h) ==
    /\ h.kind = "add" /\ h.a.kind = "scal"
    /\ h.a.a.kind = "base" /\ h.b.kind = "base"

\* m[[row, col]], in range
At(m, row, col) == index(m, row, col).out.val.val

\* C8: the result R of (k * A + B).eval() has the dim() of A and B and
\* R[[row, col]] = k * A[[row, col]] + B[[row, col]] at every coordinate in
\* range; with the matrices and the scalar of test::scalar_mult, R is 2 x 3,
\* R[[1, 2]] is 16 and every other element is 0.
C8_ScaledSum ==
    ret.op = "eval" /\ IsScaledSum(ret.src) =>
        LET A0 == ret.src.a.a
            B0 == ret.src.b
            k == ret.src.a.k
            R == mats["R"]
        IN /\ dim(mats, R) = dim(mats, A0)
           /\ dim(mats, R) = dim(mats, B0)
           /\ \A row \in RowsIn(dim(mats, A0)), col \in ColsIn(dim(mats, A0)) :
                At(R, row, col) = k * At(A0, row, col) + At(B0, row, col)
           /\ (A0 = TestMatrix(TestVal1) /\ B0 = TestMatrix(TestVal2) /\ k = TestScalar) =>
                /\ dim(mats, R) = <<TestRows, TestCols>>
                /\ \A row \in 0..(TestRows - 1), col \in 0..(TestCols - 1) :
                     At(R, row, col) =
                        (IF row = TestRow /\ col = TestCol THEN TestResult ELSE 0)

\* the expression of test::scalar_mult has just been evaluated
C8_Witness ==
    /\ ret.op = "eval" /\ IsScaledSum(ret.src)
    /\ ret.src.a.a = TestMatrix(TestVal1)
    /\ ret.src.b = TestMatrix(TestVal2)
    /\ ret.src.a.k = TestScalar

\* ---- the serial index layout ----
\* what the last call on the index layout must have returned
IndexOutcome ==
    LET L == index_layout
        n == index_layout.size
    IN CASE ret.op = "local2global" ->
              ret.out = (IF ret.args[1] < n THEN Some(ret.args[1]) ELSE None)
         [] ret.op = "global2local" ->
              ret.out = (IF ret.args[1] = 0 /\ ret.args[2] < n
                         THEN Some(ret.args[2]) ELSE None)
         [] ret.op = "index_range" ->
              IF ret.args[1] = 0 THEN ret.out = Ok(<<0, n>>)
              ELSE ret.out.tag = "Err" /\ ret.out.err.kind = "MpiRankError"
         [] ret.op = "local_range" -> ret.out = <<0, n>>
         [] ret.op = "number_of_local_indices" -> ret.out = n
         [] ret.op = "number_of_global_indices" -> ret.out = n
         [] OTHER -> TRUE

\* C11: on an index layout of size n, local2global(i) and global2local(0, i)
\* are Some(i) exactly when i < n and None otherwise, so that
\* global2local(0, local2global(i)) is Some(i) for every i < n; a rank other
\* than 0 owns nothing (global2local is None, index_range an MpiRankError);
\* index_range(0) and local_range() are (0, n), and the numbers of local and
\* of global indices are n.
C11_SerialIndexLayout ==
    index_layout # None =>
        LET L == index_layout
            n == index_layout.size
        IN /\ IndexOutcome
           /\ \A i \in Indices :
                /\ local2global(L, i) = (IF i < n THEN Some(i) ELSE None)
                /\ global2local(L, 0, i) = (IF i < n THEN Some(i) ELSE None)
                /\ i < n => global2local(L, 0, local2global(L, i).val) = Some(i)
                /\ \A rank \in Ranks \ {0} : global2local(L, rank, i) = None
           /\ \A rank \in Ranks \ {0} :
                /\ index_range(L, rank).tag = "Err"
                /\ index_range(L, rank).err.kind = "MpiRankError"
           /\ index_range(L, 0) = Ok(<<0, n>>)
           /\ local_range(L) = <<0, n>>
           /\ number_of_local_indices(L) = n
           /\ number_of_global_indices(L) = n

\* on the layout of the test, local2global has answered None at the index
\* one past the last
C11_Witness ==
    /\ index_layout # None /\ index_layout.size = TestSize
    /\ ret.op = "local2global" /\ ret.args = <<TestSize>> /\ ret.out = None

\* ---- the Layout of an Addition node ----
\* the Layout of every Addition node inside h follows the row-major
\* convention for the dim() of its operands: the flat index and the offset its
\* stride gives for (row, col) are row * cols + col, and the conversions
\* between flat indices and coordinates are inverse of each other
RECURSIVE RowMajor(_)
RowMajor(h) ==
    CASE h.kind = "add" ->
            LET l == h.layout
                d == dim(mats, h.a)
            IN /\ l.dim = d
               /\ \A row \in RowsIn(d), col \in ColsIn(d) :
                    /\ convert_2d_1d(l, row, col) = row * d[2] + col
                    /\ convert_2d_raw(l, row, col) = row * d[2] + col
                    /\ convert_1d_2d(l, convert_2d_1d(l, row, col)) = <<row, col>>
               /\ \A i \in 0..(d[1] * d[2] - 1) :
                    LET rc == convert_1d_2d(l, i) IN
                    /\ rc[1] < d[1] /\ rc[2] < d[2]
                    /\ convert_2d_1d(l, rc[1], rc[2]) = i
               /\ RowMajor(h.a) /\ RowMajor(h.b)
      [] h.kind = "scal" -> RowMajor(h.a)
      [] OTHER -> TRUE

\* C12: the Layout an Addition node builds for (rows, cols) is row-major,
\* flat = row * cols + col, and its conversions between flat indices below
\* rows * cols and coordinates in range are total and inverse of each other.
C12_RowMajorLayout == \A n \in Names : RowMajor(mats[n])

\* ---- the loops of eval ----
\* the passes of the last eval that wrote (row, col)
WritesAt(row, col) == {k \in 1..Len(ret.log) : ret.log[k].write = <<row, col>>}

\* C13: eval returns for every dim(), zero rows or columns included; into a
\* result that starts as zeros it writes every coordinate in range exactly
\* once, with what one read of the source at that coordinate yields, and no
\* other place: rows * cols writes in all.
C13_EvalWritesOnce ==
    ret.op = "eval" =>
        LET d == dim(mats, ret.src)
            R == mats["R"]
        IN /\ ~failed /\ R = ret.out.val
           /\ Len(ret.log) = d[1] * d[2]
           /\ \A row \in RowsIn(d), col \in ColsIn(d) :
                Cardinality(WritesAt(row, col)) = 1
           /\ \A k \in 1..Len(ret.log) :
                LET e == ret.log[k] IN
                /\ e.write[1] < d[1] /\ e.write[2] < d[2]
                /\ e.read = e.write
                /\ e.at = convert_2d_raw(R.layout, e.write[1], e.write[2])
                /\ e.at \in DOMAIN R.data
                /\ R.data[e.at] = get_value_unchecked(mats, ret.src, e.read[1], e.read[2])
           /\ \A i \in DOMAIN R.data :
                (\A k \in 1..Len(ret.log) : ret.log[k].at # i) => R.data[i] = 0

\* eval has run on a nested expression that is not square and has two
\* elements at least
C13_Witness ==
    /\ ret.op = "eval" /\ Nested(ret.src) /\ Len(ret.log) >= 2
    /\ dim(mats, ret.src)[1] # dim(mats, ret.src)[2]

\* ---- reads have no effect ----
ReadOps == {"get_value", "get1d_value"}

\* what an element read and an eval leave alone: a read the whole store, an
\* eval every operand its expression borrows
C14_Frame ==
    /\ ret'.op \in ReadOps => mats' = mats
    /\ ret'.op = "eval" => \A m \in Refs(ret'.src) : mats'[m] = mats[m]

\* the read or the eval just made, made again, yields the same
C14_Again ==
    /\ (ret.op = "get_value" /\ ~failed) =>
          get_value(mats, mats[ret.name], ret.args[1], ret.args[2]).out = ret.out
    /\ (ret.op = "get1d_value" /\ ~failed) =>
          get1d_value(mats, mats[ret.name], ret.args[1]).out = ret.out
    /\ ret.op = "eval" => eval(mats, ret.src) = ret.out.val

\* C14: an element read of an expression and an eval of an expression over
\* borrowed operands leave the elements and the dim() of every operand as
\* they were, so that the same read or eval made again yields the same.
C14_SideEffectFree ==
    /\ []C14_Again
    /\ [][C14_Frame]_vars

\* an Addition node over the borrowed A and B, with two elements at least,
\* has just been evaluated
C14_Witness ==
    /\ ret.op = "eval" /\ ret.src.kind = "add" /\ Refs(ret.src) = {"A", "B"}
    /\ Len(ret.log) >= 2
    /\ mats["R"] # mats["A"] /\ mats["R"] # mats["B"]

\* ---- the unchecked calls of eval ----
\* the handles get_value_unchecked on h calls in turn, h included, all have
\* (row, col) in range of their own dim()
RECURSIVE InRangeThroughout(_, _, _)
InRangeThroughout(h, row, col) ==
    /\ row < dim(mats, h)[1] /\ col < dim(mats, h)[2]
    /\ CASE h.kind = "add" ->
               InRangeThroughout(h.a, row, col) /\ InRangeThroughout(h.b, row, col)
         [] h.kind = "scal" -> InRangeThroughout(h.a, row, col)
         [] h.kind = "ref" -> InRangeThroughout(mats[h.name], row, col)
         [] OTHER -> row * h.layout.stride[1] + col * h.layout.stride[2] \in DOMAIN h.data

\* every node and leaf of h has the dim() d
RECURSIVE DimThroughout(_, _)
DimThroughout(h, d) ==
    /\ dim(mats, h) = d
    /\ CASE h.kind = "add" -> DimThroughout(h.a, d) /\ DimThroughout(h.b, d)
         [] h.kind = "scal" -> DimThroughout(h.a, d)
         [] h.kind = "ref" -> DimThroughout(mats[h.name], d)
         [] OTHER -> TRUE

\* C15: eval on an expression that was built without failure does not fail;
\* every node and leaf of the expression has the dim() of its root, and
\* every get_value_unchecked call eval makes, down to every leaf, is at a
\* coordinate in range of the dim() of the handle called, so that every
\* element of the result is an Item read inside a buffer.
C15_EvalInRange ==
    ret.op = "eval" =>
        /\ ~failed
        /\ DimThroughout(ret.src, dim(mats, ret.src))
        /\ \A k \in 1..Len(ret.log) :
             InRangeThroughout(ret.src, ret.log[k].read[1], ret.log[k].read[2])
        /\ \A i \in DOMAIN mats["R"].data : mats["R"].data[i] # Undef

\* eval has run on an Addition node over another Addition node that holds a
\* borrowed operand, of two rows and columns at least
C15_Witness ==
    /\ ret.op = "eval" /\ ~failed
    /\ Nested(ret.src) /\ Refs(ret.src) # {} /\ Wide(ret.src)

====
